---- MODULE Spec2Model ----
(***************************************************************************)
(* Model of the NFC file sharing service (src/src/main.rs).                *)
(*                                                                         *)
(* The process has two flows of control: the main thread (setup, control  *)
(* loop, final cleanup) and the thread on which the ctrlc crate runs the   *)
(* Ctrl-C handler.  Both act on the same operating-system state: the      *)
(* AUTH_STATE file, the mode and owner of SHARE_PATH, the lock of the     *)
(* fileuser account and the AUTH_LOG file.  Every file-system call and    *)
(* every external command is one atomic step, so the two threads          *)
(* interleave between any two of them.                                     *)
(*                                                                         *)
(* Time is counted in ticks, Resolution ticks to the second.  The record   *)
(* file holds a time formatted with "%Y-%m-%d %H:%M:%S", that is whole     *)
(* seconds: FormatTime drops the sub-second part and ParseTime gives the   *)
(* tick at which that second starts.                                       *)
(***************************************************************************)
EXTENDS Integers, Sequences, FiniteSets, TLC

(* ------------------------------ bounds --------------------------------- *)

\* ticks to the second (sub-second resolution of Local::now())
Resolution == 2

\* the clock stops advancing at this many minutes
MaxMinutes == 20

\* card presentations (read_card_uid returning Some) in one run
MaxCards == 2

\* Ctrl-C signals delivered in one run
MaxSignals == 1

\* calls made by the function-level driver of SpecUnit
MaxCalls == 3

(* --------------------------- program constants -------------------------- *)

TIMEOUT_MINUTES == 10

AUTHORIZED_UIDS == {"79 DE 3F 02"}

TicksPerMinute == 60 * Resolution

\* the clock starts at a sub-second phase; while the program runs it
\* advances by the access window, between two calls of the function-level
\* driver by five minutes
Jumps == {TIMEOUT_MINUTES * TicksPerMinute}

UnitJumps == {5 * TicksPerMinute}

Horizon == MaxMinutes * TicksPerMinute

Threads == {"main", "handler"}

\* what the detector script may print (trimmed stdout of nfc_detector.py)
DetectorOutputs ==
    {"", "NO_CARD", "ERROR", "NO_READERS", "CONNECT_ERROR", "EXCEPTION:x",
     "79 DE 3F 02", "04 A1 B2 C3"}

VARIABLES
    auth_state,   \* the AUTH_STATE file: [exists, wellformed, secs]
    share_mode,   \* mode of SHARE_PATH: "700", "770" or "777"
    share_owner,  \* owner of SHARE_PATH: "pi:pi" or "pi:fileuser"
    fileuser,     \* the fileuser account: "locked" or "unlocked"
    auth_log,     \* AUTH_LOG: number of lines appended, by message
    running,      \* the AtomicBool shared by the handler and the loop
    installed,    \* the Ctrl-C handler has been set
    clock,        \* wall-clock time in ticks
    pc,           \* position of each thread
    stack,        \* return positions of each thread
    ret,          \* value returned by the call a thread has just finished
    expiration_str, \* the local `expiration_str` of check_auth_state
    uid,          \* the local `uid` of the loop: the card being handled
    proc,         \* "running", or "exited" once main has returned
    exit_code,    \* what main returned: 0 for Ok, 1 for Err
    cards,        \* card presentations so far
    signals,      \* Ctrl-C signals so far
    sig_active,   \* a Ctrl-C arrived while a valid session record existed
    faulty,       \* the external commands of this run may fail
    history       \* the operating-system state at the start and, under
                  \* SpecUnit, each call of the driver with the state it
                  \* was made in

os    == <<auth_state, share_mode, share_owner, fileuser, auth_log>>
ctl   == <<pc, stack, ret>>
locs  == <<expiration_str, uid>>
env   == <<cards, signals, sig_active, faulty, history>>
vars  == <<auth_state, share_mode, share_owner, fileuser, auth_log, running,
           installed, clock, pc, stack, ret, expiration_str, uid, proc,
           exit_code, cards, signals, sig_active, faulty, history>>

(* ----------------------------- the record file -------------------------- *)

NoFile == [exists |-> FALSE, wellformed |-> FALSE, secs |-> 0]

Garbage == [exists |-> TRUE, wellformed |-> FALSE, secs |-> 0]

Stamp(s) == [exists |-> TRUE, wellformed |-> TRUE, secs |-> s]

\* expiration.format("%Y-%m-%d %H:%M:%S"): the whole seconds of a time
FormatTime(t) == t \div Resolution

\* NaiveDateTime::parse_from_str(.., "%Y-%m-%d %H:%M:%S") of a well-formed text
ParseTime(s) == s * Resolution

\* now + chrono::Duration::minutes(TIMEOUT_MINUTES)
Expiration(now) == now + TIMEOUT_MINUTES * TicksPerMinute

\* the comparison turned round
ExpiredInverted(now, expiration) == now < expiration

\* the test of check_auth_state: `if now > expiration`
Expired(now, expiration) == now > expiration

\* every card taken for an authorized one
IsAuthorizedAny(id) == TRUE

\* AUTHORIZED_UIDS.contains(&uid.as_str())
IsAuthorized(id) == id \in AUTHORIZED_UIDS

\* stdout.starts_with("EXCEPTION:"), over DetectorOutputs
StartsWithException(stdout) == stdout \in {"EXCEPTION:x"}

\* read_card_uid: Some(stdout) unless stdout is empty or a sentinel
IsCard(stdout) ==
    /\ stdout # ""
    /\ stdout \notin {"NO_CARD", "ERROR", "NO_READERS", "CONNECT_ERROR"}
    /\ ~StartsWithException(stdout)

\* log_event(message): one line appended to AUTH_LOG
Logged(lg, message) == [lg EXCEPT ![message] = @ + 1]

EmptyLog ==
    [authorized |-> 0, unauthorized |-> 0, enabled |-> 0, disabled |-> 0,
     cleanup |-> 0]

(* ------------------------------ control --------------------------------- *)

NoRet == "none"

\* no card is being handled
NoCard == ""

At(t, label) == proc = "running" /\ pc[t] = label

Goto(t, label) ==
    /\ pc' = [pc EXCEPT ![t] = label]
    /\ UNCHANGED <<stack, ret>>

\* call the function whose first step is `entry`, to continue at `back`
Call(t, entry, back) ==
    /\ pc' = [pc EXCEPT ![t] = entry]
    /\ stack' = [stack EXCEPT ![t] = <<back>> \o @]
    /\ ret' = [ret EXCEPT ![t] = NoRet]

\* return value v ("ok", "err", "true" or "false") to the caller
Return(t, v) ==
    /\ pc' = [pc EXCEPT ![t] = Head(stack[t])]
    /\ stack' = [stack EXCEPT ![t] = Tail(@)]
    /\ ret' = [ret EXCEPT ![t] = v]

\* main returns: the process ends, and the handler thread with it
Exit(code) ==
    /\ proc' = "exited"
    /\ exit_code' = code
    /\ UNCHANGED <<pc, stack, ret>>

(* --------------------------- external commands -------------------------- *)

\* Command::new("sudo").args(..).status(): the command ran and did its work
\* ("done"), ran and ended with a non-zero status without effect ("failed"),
\* or could not be started, when status() is Err ("nospawn")
Outcomes == IF faulty THEN {"done", "failed", "nospawn"} ELSE {"done"}

\* the value a command leaves: `new` when it did its work, else `old`
Effect(o, new, old) == IF o = "done" THEN new ELSE old

\* `let _ = Command::new(..)..status()?`: the exit status is dropped, an
\* Err of status() is returned to the caller
Then(t, o, label) == IF o = "nospawn" THEN Return(t, "err") ELSE Goto(t, label)

(* ------------------------ disable_file_sharing -------------------------- *)

\* a revoke that removes the record without looking for it first
DisableExistsUnchecked(t) ==
    /\ At(t, "d_exists")
    /\ Goto(t, "d_remove")
    /\ UNCHANGED <<os, running, installed, clock, locs, proc, exit_code, env>>

\* a revoke that tightens the share and leaves the record where it is
DisableExistsKeepRecord(t) ==
    /\ At(t, "d_exists")
    /\ Goto(t, "d_chmod")
    /\ UNCHANGED <<os, running, installed, clock, locs, proc, exit_code, env>>

\* Path::new(AUTH_STATE).exists()
DisableExists(t) ==
    /\ At(t, "d_exists")
    /\ Goto(t, IF auth_state.exists THEN "d_remove" ELSE "d_chmod")
    /\ UNCHANGED <<os, running, installed, clock, locs, proc, exit_code, env>>

\* fs::remove_file(AUTH_STATE)?  -- NotFound when the file is gone by now
DisableRemove(t) ==
    /\ At(t, "d_remove")
    /\ IF auth_state.exists
         THEN auth_state' = NoFile /\ Goto(t, "d_chmod")
         ELSE UNCHANGED auth_state /\ Return(t, "err")
    /\ UNCHANGED <<share_mode, share_owner, fileuser, auth_log, running,
                   installed, clock, locs, proc, exit_code, env>>

\* sudo chmod -R 700 SHARE_PATH
DisableChmod(t) ==
    /\ At(t, "d_chmod")
    /\ \E o \in Outcomes :
         /\ share_mode' = Effect(o, "700", share_mode)
         /\ Then(t, o, "d_chown")
    /\ UNCHANGED <<auth_state, share_owner, fileuser, auth_log, running,
                   installed, clock, locs, proc, exit_code, env>>

\* sudo chown -R pi:pi SHARE_PATH
DisableChown(t) ==
    /\ At(t, "d_chown")
    /\ \E o \in Outcomes :
         /\ share_owner' = Effect(o, "pi:pi", share_owner)
         /\ Then(t, o, "d_usermod")
    /\ UNCHANGED <<auth_state, share_mode, fileuser, auth_log, running,
                   installed, clock, locs, proc, exit_code, env>>

\* a revoke that leaves the account as it is
DisableUsermodSkipped(t) ==
    /\ At(t, "d_usermod")
    /\ Goto(t, "d_log")
    /\ UNCHANGED <<os, running, installed, clock, locs, proc, exit_code, env>>

\* sudo usermod -L fileuser
DisableUsermod(t) ==
    /\ At(t, "d_usermod")
    /\ \E o \in Outcomes :
         /\ fileuser' = Effect(o, "locked", fileuser)
         /\ Then(t, o, "d_log")
    /\ UNCHANGED <<auth_state, share_mode, share_owner, auth_log, running,
                   installed, clock, locs, proc, exit_code, env>>

\* sudo systemctl restart smbd; log_event("File sharing disabled"); Ok(())
DisableLog(t) ==
    /\ At(t, "d_log")
    /\ \E restart \in Outcomes :
         IF restart = "nospawn"
           THEN UNCHANGED auth_log /\ Return(t, "err")
           ELSE auth_log' = Logged(auth_log, "disabled") /\ Return(t, "ok")
    /\ UNCHANGED <<auth_state, share_mode, share_owner, fileuser, running,
                   installed, clock, locs, proc, exit_code, env>>

disable_file_sharing(t) ==
    \/ DisableExists(t)
    \/ DisableRemove(t)
    \/ DisableChmod(t)
    \/ DisableChown(t)
    \/ DisableUsermod(t)
    \/ DisableLog(t)

(* -------------------------------- cleanup ------------------------------- *)

\* sudo chmod -R 700 SHARE_PATH
CleanupChmod(t) ==
    /\ At(t, "c_chmod")
    /\ \E o \in Outcomes :
         /\ share_mode' = Effect(o, "700", share_mode)
         /\ Then(t, o, "c_chown")
    /\ UNCHANGED <<auth_state, share_owner, fileuser, auth_log, running,
                   installed, clock, locs, proc, exit_code, env>>

\* sudo chown -R pi:pi SHARE_PATH
CleanupChown(t) ==
    /\ At(t, "c_chown")
    /\ \E o \in Outcomes :
         /\ share_owner' = Effect(o, "pi:pi", share_owner)
         /\ Then(t, o, "c_usermod")
    /\ UNCHANGED <<auth_state, share_mode, fileuser, auth_log, running,
                   installed, clock, locs, proc, exit_code, env>>

\* sudo usermod -L fileuser; sudo systemctl restart smbd
CleanupUsermod(t) ==
    /\ At(t, "c_usermod")
    /\ \E o \in Outcomes :
         /\ fileuser' = Effect(o, "locked", fileuser)
         /\ \E restart \in Outcomes :
              Then(t, IF o = "nospawn" THEN o ELSE restart, "c_exists")
    /\ UNCHANGED <<auth_state, share_mode, share_owner, auth_log, running,
                   installed, clock, locs, proc, exit_code, env>>

\* Path::new(AUTH_STATE).exists()
CleanupExists(t) ==
    /\ At(t, "c_exists")
    /\ Goto(t, IF auth_state.exists THEN "c_remove" ELSE "c_log")
    /\ UNCHANGED <<os, running, installed, clock, locs, proc, exit_code, env>>

\* fs::remove_file(AUTH_STATE)?
CleanupRemove(t) ==
    /\ At(t, "c_remove")
    /\ IF auth_state.exists
         THEN auth_state' = NoFile /\ Goto(t, "c_log")
         ELSE UNCHANGED auth_state /\ Return(t, "err")
    /\ UNCHANGED <<share_mode, share_owner, fileuser, auth_log, running,
                   installed, clock, locs, proc, exit_code, env>>

\* log_event("System completely cleaned up on exit")?; Ok(())
CleanupLog(t) ==
    /\ At(t, "c_log")
    /\ auth_log' = Logged(auth_log, "cleanup")
    /\ Return(t, "ok")
    /\ UNCHANGED <<auth_state, share_mode, share_owner, fileuser, running,
                   installed, clock, locs, proc, exit_code, env>>

cleanup(t) ==
    \/ CleanupChmod(t)
    \/ CleanupChown(t)
    \/ CleanupUsermod(t)
    \/ CleanupExists(t)
    \/ CleanupRemove(t)
    \/ CleanupLog(t)

(* -------------------------- enable_file_sharing ------------------------- *)

\* a grant that extends the expiry of the record it finds
EnableWriteExtend(t) ==
    /\ At(t, "e_write")
    /\ auth_state' =
         IF auth_state.exists /\ auth_state.wellformed
           THEN Stamp(auth_state.secs + TIMEOUT_MINUTES * 60)
           ELSE Stamp(FormatTime(Expiration(clock)))
    /\ Goto(t, "e_chmod777")
    /\ UNCHANGED <<share_mode, share_owner, fileuser, auth_log, running,
                   installed, clock, locs, proc, exit_code, env>>

\* let now = Local::now().naive_local(); let expiration = now + minutes(..);
\* fs::write(AUTH_STATE, expiration.format("%Y-%m-%d %H:%M:%S"))?
EnableWrite(t) ==
    /\ At(t, "e_write")
    /\ auth_state' = Stamp(FormatTime(Expiration(clock)))
    /\ Goto(t, "e_chmod777")
    /\ UNCHANGED <<share_mode, share_owner, fileuser, auth_log, running,
                   installed, clock, locs, proc, exit_code, env>>

\* sudo chmod -R 777 SHARE_PATH
EnableChmod777(t) ==
    /\ At(t, "e_chmod777")
    /\ \E o \in Outcomes :
         /\ share_mode' = Effect(o, "777", share_mode)
         /\ Then(t, o, "e_chown")
    /\ UNCHANGED <<auth_state, share_owner, fileuser, auth_log, running,
                   installed, clock, locs, proc, exit_code, env>>

\* sudo chown -R pi:fileuser SHARE_PATH
EnableChown(t) ==
    /\ At(t, "e_chown")
    /\ \E o \in Outcomes :
         /\ share_owner' = Effect(o, "pi:fileuser", share_owner)
         /\ Then(t, o, "e_chmod770")
    /\ UNCHANGED <<auth_state, share_mode, fileuser, auth_log, running,
                   installed, clock, locs, proc, exit_code, env>>

\* sudo chmod -R 770 SHARE_PATH
EnableChmod770(t) ==
    /\ At(t, "e_chmod770")
    /\ \E o \in Outcomes :
         /\ share_mode' = Effect(o, "770", share_mode)
         /\ Then(t, o, "e_usermod")
    /\ UNCHANGED <<auth_state, share_owner, fileuser, auth_log, running,
                   installed, clock, locs, proc, exit_code, env>>

\* sudo usermod -U fileuser
EnableUsermod(t) ==
    /\ At(t, "e_usermod")
    /\ \E o \in Outcomes :
         /\ fileuser' = Effect(o, "unlocked", fileuser)
         /\ Then(t, o, "e_log")
    /\ UNCHANGED <<auth_state, share_mode, share_owner, auth_log, running,
                   installed, clock, locs, proc, exit_code, env>>

\* sudo systemctl restart smbd; log_event("File sharing enabled ..")?;
\* hostname -I; println!(..); Ok(())
EnableLog(t) ==
    /\ At(t, "e_log")
    /\ \E restart \in Outcomes, hostname \in Outcomes :
         IF restart = "nospawn"
           THEN UNCHANGED auth_log /\ Return(t, "err")
           ELSE /\ auth_log' = Logged(auth_log, "enabled")
                /\ Return(t, IF hostname = "nospawn" THEN "err" ELSE "ok")
    /\ UNCHANGED <<auth_state, share_mode, share_owner, fileuser, running,
                   installed, clock, locs, proc, exit_code, env>>

enable_file_sharing(t) ==
    \/ EnableWrite(t)
    \/ EnableChmod777(t)
    \/ EnableChown(t)
    \/ EnableChmod770(t)
    \/ EnableUsermod(t)
    \/ EnableLog(t)

(* ---------------------------- check_auth_state -------------------------- *)

\* if !Path::new(AUTH_STATE).exists() { return Ok(false); }
CheckExists(t) ==
    /\ At(t, "k_exists")
    /\ IF auth_state.exists THEN Goto(t, "k_read") ELSE Return(t, "false")
    /\ UNCHANGED <<os, running, installed, clock, locs, proc, exit_code, env>>

\* let expiration_str = fs::read_to_string(AUTH_STATE)?
CheckRead(t) ==
    /\ At(t, "k_read")
    /\ IF auth_state.exists
         THEN expiration_str' = auth_state /\ Goto(t, "k_parse")
         ELSE UNCHANGED expiration_str /\ Return(t, "err")
    /\ UNCHANGED <<os, running, installed, clock, uid, proc, exit_code, env>>

\* a check that takes a record it cannot parse for a valid one
CheckParseLenient(t) ==
    /\ At(t, "k_parse")
    /\ expiration_str' = NoFile
    /\ IF expiration_str.wellformed
            /\ Expired(clock, ParseTime(expiration_str.secs))
         THEN Call(t, "d_exists", "k_revoked")
         ELSE Return(t, "true")
    /\ UNCHANGED <<os, running, installed, clock, uid, proc, exit_code, env>>

\* match NaiveDateTime::parse_from_str(..) { Ok(expiration) => { let now =
\* Local::now().naive_local(); if now > expiration { disable_file_sharing()?
\* .. } else { Ok(true) } }, Err(_) => { disable_file_sharing()?; .. } }
CheckParse(t) ==
    /\ At(t, "k_parse")
    /\ expiration_str' = NoFile
    /\ IF expiration_str.wellformed
         THEN IF Expired(clock, ParseTime(expiration_str.secs))
                THEN Call(t, "d_exists", "k_revoked")
                ELSE Return(t, "true")
         ELSE Call(t, "d_exists", "k_revoked")
    /\ UNCHANGED <<os, running, installed, clock, uid, proc, exit_code, env>>

\* disable_file_sharing()?; Ok(false)
CheckRevoked(t) ==
    /\ At(t, "k_revoked")
    /\ Return(t, IF ret[t] = "err" THEN "err" ELSE "false")
    /\ UNCHANGED <<os, running, installed, clock, locs, proc, exit_code, env>>

check_auth_state(t) ==
    \/ CheckExists(t)
    \/ CheckRead(t)
    \/ CheckParse(t)
    \/ CheckRevoked(t)

(* ---------------------------------- main -------------------------------- *)

\* the record holds a time that check_auth_state accepts at this instant
SessionActive ==
    /\ auth_state.exists
    /\ auth_state.wellformed
    /\ ~Expired(clock, ParseTime(auth_state.secs))

\* if !Path::new(NFC_SCRIPT).exists() { .. return Ok(()); }
MainScript ==
    /\ At("main", "m_script")
    /\ \E script_exists \in BOOLEAN :
         IF script_exists
           THEN Goto("main", "m_setup") /\ UNCHANGED <<proc, exit_code>>
           ELSE Exit(0)
    /\ UNCHANGED <<os, running, installed, clock, locs, env>>

\* a startup that does not disable sharing
MainSetupNoRevoke ==
    /\ At("main", "m_setup")
    /\ fileuser' = "locked"
    /\ pc' = [pc EXCEPT !["main"] = "m_init"]
    /\ ret' = [ret EXCEPT !["main"] = "ok"]
    /\ UNCHANGED <<stack, auth_state, share_mode, share_owner, auth_log,
                   running, installed, clock, locs, proc, exit_code, env>>

\* setup_system()? (its last command locks fileuser); disable_file_sharing()?
MainSetup ==
    /\ At("main", "m_setup")
    /\ \E o \in Outcomes :
         /\ fileuser' = Effect(o, "locked", fileuser)
         /\ IF o = "nospawn"
              THEN Exit(1)
              ELSE /\ Call("main", "d_exists", "m_init")
                   /\ UNCHANGED <<proc, exit_code>>
    /\ UNCHANGED <<auth_state, share_mode, share_owner, auth_log, running,
                   installed, clock, locs, env>>

\* the `?` of disable_file_sharing()?; running = AtomicBool::new(true);
\* ctrlc::set_handler(..)
MainInit ==
    /\ At("main", "m_init")
    /\ IF ret["main"] = "err"
         THEN Exit(1) /\ UNCHANGED <<running, installed>>
         ELSE /\ running' = TRUE
              /\ installed' = TRUE
              /\ pc' = [pc EXCEPT !["main"] = "m_while"]
              /\ ret' = [ret EXCEPT !["main"] = NoRet]
              /\ UNCHANGED <<stack, proc, exit_code>>
    /\ UNCHANGED <<os, clock, locs, env>>

\* while running.load(SeqCst) { if check_auth_state()? .. }  cleanup()?
MainWhile ==
    /\ At("main", "m_while")
    /\ IF running
         THEN Call("main", "k_exists", "m_checked")
         ELSE Call("main", "c_chmod", "m_cleaned")
    /\ UNCHANGED <<os, running, installed, clock, locs, proc, exit_code, env>>

\* a loop that polls the reader whatever check_auth_state returned
MainCheckedPoll ==
    /\ At("main", "m_checked")
    /\ IF ret["main"] = "err"
         THEN Exit(1)
         ELSE /\ pc' = [pc EXCEPT !["main"] = "m_read"]
              /\ ret' = [ret EXCEPT !["main"] = NoRet]
              /\ UNCHANGED <<stack, proc, exit_code>>
    /\ UNCHANGED <<os, running, installed, clock, locs, env>>

\* the `?` and the `if` of check_auth_state()?.  When it is true the loop
\* prints the time remaining every 30 seconds (a read of the record that
\* changes nothing), sleeps a second and continues.
MainChecked ==
    /\ At("main", "m_checked")
    /\ IF ret["main"] = "err"
         THEN Exit(1)
         ELSE /\ pc' = [pc EXCEPT !["main"] =
                          IF ret["main"] = "true" THEN "m_while" ELSE "m_read"]
              /\ ret' = [ret EXCEPT !["main"] = NoRet]
              /\ UNCHANGED <<stack, proc, exit_code>>
    /\ UNCHANGED <<os, running, installed, clock, locs, env>>

\* match read_card_uid() { Some(uid) => if AUTHORIZED_UIDS.contains(..) {
\* log_event("Authorized card")?; enable_file_sharing()? } else {
\* log_event("Unauthorized card")?; disable_file_sharing()? }, None => sleep }
MainRead ==
    /\ At("main", "m_read")
    /\ \E stdout \in DetectorOutputs :
         IF IsCard(stdout)
           THEN /\ cards < MaxCards
                /\ cards' = cards + 1
                /\ uid' = stdout
                /\ IF IsAuthorized(stdout)
                     THEN /\ auth_log' = Logged(auth_log, "authorized")
                          /\ Call("main", "e_write", "m_granted")
                     ELSE /\ auth_log' = Logged(auth_log, "unauthorized")
                          /\ Call("main", "d_exists", "m_denied")
           ELSE /\ Goto("main", "m_while")
                /\ UNCHANGED <<cards, auth_log, uid>>
    /\ UNCHANGED <<auth_state, share_mode, share_owner, fileuser, running,
                   installed, clock, expiration_str, proc, exit_code,
                   signals, sig_active, faulty, history>>

\* the `?` of enable_file_sharing()? / disable_file_sharing()?, then
\* thread::sleep(2 s) and the next iteration
MainHandled ==
    /\ proc = "running"
    /\ pc["main"] \in {"m_granted", "m_denied"}
    /\ IF ret["main"] = "err"
         THEN Exit(1) /\ UNCHANGED uid
         ELSE /\ pc' = [pc EXCEPT !["main"] = "m_while"]
              /\ ret' = [ret EXCEPT !["main"] = NoRet]
              /\ uid' = NoCard
              /\ UNCHANGED <<stack, proc, exit_code>>
    /\ UNCHANGED <<os, running, installed, clock, expiration_str, env>>

\* the `?` of the final cleanup()?; Ok(())
MainCleaned ==
    /\ At("main", "m_cleaned")
    /\ Exit(IF ret["main"] = "err" THEN 1 ELSE 0)
    /\ UNCHANGED <<os, running, installed, clock, locs, env>>

main ==
    \/ MainScript
    \/ MainSetup
    \/ MainInit
    \/ MainWhile
    \/ MainChecked
    \/ MainRead
    \/ MainHandled
    \/ MainCleaned

(* ---------------------------- the Ctrl-C handler ------------------------ *)

\* a handler that stops the loop first and revokes afterwards
SignalStoreFirst ==
    /\ At("handler", "h_idle")
    /\ installed
    /\ signals < MaxSignals
    /\ signals' = signals + 1
    /\ sig_active' = (sig_active \/ SessionActive)
    /\ running' = FALSE
    /\ Call("handler", "d_exists", "h_disabled")
    /\ UNCHANGED <<os, installed, clock, locs, proc, exit_code,
                   cards, faulty, history>>

\* a SIGINT is delivered: the handler starts with disable_file_sharing()
Signal ==
    /\ At("handler", "h_idle")
    /\ installed
    /\ signals < MaxSignals
    /\ signals' = signals + 1
    /\ sig_active' = (sig_active \/ SessionActive)
    /\ Call("handler", "d_exists", "h_disabled")
    /\ UNCHANGED <<os, running, installed, clock, locs, proc, exit_code,
                   cards, faulty, history>>

\* a handler that returns on the error of its disable_file_sharing
HandlerDisabledPropagate ==
    /\ At("handler", "h_disabled")
    /\ IF ret["handler"] = "err"
         THEN /\ pc' = [pc EXCEPT !["handler"] = "h_idle"]
              /\ ret' = [ret EXCEPT !["handler"] = NoRet]
              /\ UNCHANGED stack
         ELSE Call("handler", "c_chmod", "h_cleaned")
    /\ UNCHANGED <<os, running, installed, clock, locs, proc, exit_code, env>>

\* let _ = disable_file_sharing(); let _ = cleanup();
HandlerDisabled ==
    /\ At("handler", "h_disabled")
    /\ Call("handler", "c_chmod", "h_cleaned")
    /\ UNCHANGED <<os, running, installed, clock, locs, proc, exit_code, env>>

\* r.store(false, Ordering::SeqCst)
HandlerStore ==
    /\ At("handler", "h_cleaned")
    /\ running' = FALSE
    /\ pc' = [pc EXCEPT !["handler"] = "h_idle"]
    /\ ret' = [ret EXCEPT !["handler"] = NoRet]
    /\ UNCHANGED <<os, stack, installed, clock, locs, proc, exit_code, env>>

handler ==
    \/ Signal
    \/ HandlerDisabled
    \/ HandlerStore

(* --------------------------------- time --------------------------------- *)

\* Time passes.  The program reads the clock in two places only (the `now`
\* of enable_file_sharing and of check_auth_state), so the passing of time
\* is taken just before one of them.
Tick ==
    /\ proc = "running"
    /\ pc["main"] \in {"e_write", "k_parse"}
    /\ \E d \in Jumps :
         /\ clock + d <= Horizon
         /\ clock' = clock + d
    /\ UNCHANGED <<os, running, installed, pc, stack, ret, locs, proc,
                   exit_code, env>>

(* ---------------------------- the whole program ------------------------- *)

Tight == <<"700", "pi:pi", "locked">>

Loose == <<"770", "pi:fileuser", "unlocked">>

\* what a previous run may have left in AUTH_STATE
StaleRecords ==
    {NoFile, Garbage, Stamp(0), Stamp(TIMEOUT_MINUTES * 60)}

InitCommon ==
    /\ auth_state \in StaleRecords
    /\ \E s \in {Tight, Loose} :
         share_mode = s[1] /\ share_owner = s[2] /\ fileuser = s[3]
    /\ auth_log = EmptyLog
    /\ running = TRUE
    /\ installed = FALSE
    /\ stack = [t \in Threads |-> <<>>]
    /\ ret = [t \in Threads |-> NoRet]
    /\ expiration_str = NoFile
    /\ uid = NoCard
    /\ proc = "running"
    /\ exit_code = 0
    /\ cards = 0
    /\ signals = 0
    /\ sig_active = FALSE
    /\ history = <<[fn |-> "start", os |-> os]>>

\* The program compares the clock with whole seconds only and its clock
\* advances by whole minutes, so every sub-second phase but the first acts
\* as the last one does.
Init ==
    /\ InitCommon
    /\ faulty = FALSE
    /\ clock \in {0, Resolution - 1}
    /\ pc = [t \in Threads |-> IF t = "main" THEN "m_script" ELSE "h_idle"]

Next ==
    \/ main
    \/ handler
    \/ \E t \in Threads : disable_file_sharing(t)
    \/ \E t \in Threads : cleanup(t)
    \/ enable_file_sharing("main")
    \/ check_auth_state("main")
    \/ Tick

Spec == Init /\ [][Next]_vars

\* the whole program in a run where sudo, systemctl and hostname may fail,
\* started on what a killed run leaves (a valid record, the share loosened)
InitFaulty ==
    /\ InitCommon
    /\ faulty = TRUE
    /\ clock = 0
    /\ auth_state = Stamp(TIMEOUT_MINUTES * 60)
    /\ share_mode = Loose[1]
    /\ pc = [t \in Threads |-> IF t = "main" THEN "m_script" ELSE "h_idle"]

SpecFaulty == InitFaulty /\ [][Next]_vars

(* ------------------- the functions called one at a time ------------------ *)

Entries ==
    [check_auth_state |-> "k_exists", enable_file_sharing |-> "e_write",
     disable_file_sharing |-> "d_exists", cleanup |-> "c_chmod"]

\* some time after the last call (none, or five minutes) a caller invokes
\* one of the four functions on the state as it stands
UnitCall ==
    /\ At("main", "u_idle")
    /\ Len(history) <= MaxCalls
    /\ \E d \in {0} \cup UnitJumps :
         /\ clock + d <= Horizon
         /\ clock' = clock + d
    /\ \E f \in DOMAIN Entries :
         /\ history' = Append(history, [fn |-> f, os |-> os])
         /\ Call("main", Entries[f], "u_idle")
    /\ UNCHANGED <<os, running, installed, locs, proc, exit_code,
                   cards, signals, sig_active, faulty>>

InitUnit ==
    /\ InitCommon
    /\ faulty = FALSE
    /\ clock \in 0 .. (Resolution - 1)
    /\ pc = [t \in Threads |-> IF t = "main" THEN "u_idle" ELSE "h_idle"]

NextUnit ==
    \/ UnitCall
    \/ disable_file_sharing("main")
    \/ cleanup("main")
    \/ enable_file_sharing("main")
    \/ check_auth_state("main")

SpecUnit == InitUnit /\ [][NextUnit]_vars

(* ------------- grant and revoke where the commands may fail -------------- *)

\* a caller invokes enable_file_sharing or disable_file_sharing on the state
\* as it stands, in a run where sudo, systemctl and hostname may fail
UnitCallFaulty ==
    /\ At("main", "u_idle")
    /\ Len(history) <= MaxCalls
    /\ \E f \in {"enable_file_sharing", "disable_file_sharing"} :
         /\ history' = Append(history, [fn |-> f, os |-> os])
         /\ Call("main", Entries[f], "u_idle")
    /\ UNCHANGED <<os, running, installed, clock, locs, proc, exit_code,
                   cards, signals, sig_active, faulty>>

InitUnitFaulty ==
    /\ InitCommon
    /\ faulty = TRUE
    /\ clock \in 0 .. (Resolution - 1)
    /\ pc = [t \in Threads |-> IF t = "main" THEN "u_idle" ELSE "h_idle"]

NextUnitFaulty ==
    \/ UnitCallFaulty
    \/ disable_file_sharing("main")
    \/ enable_file_sharing("main")

SpecUnitFaulty == InitUnitFaulty /\ [][NextUnitFaulty]_vars

(* ------------------------------- properties ------------------------------ *)

\* the record is absent, the share is tightened and the account is locked
Revoked ==
    /\ ~auth_state.exists
    /\ share_mode = "700"
    /\ share_owner = "pi:pi"
    /\ fileuser = "locked"

\* the last call of the function-level driver and the state it was made in
Last == history[Len(history)]

\* the driver's call of function f has returned
Returned(f) == pc["main"] = "u_idle" /\ Last.fn = f

\* the expiry instant held by a well-formed record
ExpiryOf(file) == ParseTime(file.secs)

AccessWindow == TIMEOUT_MINUTES * TicksPerMinute

\* C1: when a Ctrl-C arrives while a session is active, the state in which
\* the process ends has the record absent, the share tightened and the
\* account locked, whatever the interleaving of the handler and the loop.
C1_ShutdownEndsRevoked ==
    (proc = "exited" /\ sig_active) => Revoked

\* C2: every grant is eventually revoked.  The process takes no step after
\* main has returned, so a grant is revoked eventually only if no process
\* that completed a grant ends with the grant standing.
C2_GrantRevokedByExit ==
    (proc = "exited" /\ auth_log.enabled > 0) => Revoked

\* C3: a check of a record whose expiry E is at or before now (E = now
\* included) returns not-authorized and has called disable_file_sharing
\* exactly once.
C3_ExpiredNotAuthorized ==
    (/\ Returned("check_auth_state")
     /\ Last.os[1].wellformed
     /\ ExpiryOf(Last.os[1]) <= clock)
    => (/\ ret["main"] = "false"
        /\ auth_log.disabled = Last.os[5].disabled + 1)

\* C4: a check of a record whose expiry E is after now returns authorized
\* and leaves the record, the share, the account and the audit log as they
\* were.
C4_ValidAuthorizedNoMutation ==
    (/\ Returned("check_auth_state")
     /\ Last.os[1].wellformed
     /\ ExpiryOf(Last.os[1]) > clock)
    => (ret["main"] = "true" /\ os = Last.os)

C4_Witness ==
    /\ Returned("check_auth_state")
    /\ Last.os[1].wellformed
    /\ ExpiryOf(Last.os[1]) > clock
    /\ ret["main"] = "true"
    /\ Last.os[3] = "pi:fileuser"

\* C5: a shutdown while a session is active appends exactly one "cleaned up
\* on exit" entry to the audit log.
C5_OneTerminalEntry ==
    (proc = "exited" /\ exit_code = 0 /\ sig_active) => auth_log.cleanup = 1

\* C6: disable_file_sharing never returns an error to the loop or to the
\* handler, however their calls interleave, and when the loop's call and the
\* handler's call have both returned the state is fully revoked.
C6_RevokeNeverFails ==
    /\ \A t \in Threads :
         pc[t] \in {"m_denied", "k_revoked", "h_disabled"} => ret[t] # "err"
    /\ (pc["main"] \in {"m_denied", "k_revoked"} /\ pc["handler"] = "h_disabled")
       => Revoked

\* C7: while the loop handles a card that is not in AUTHORIZED_UIDS, and when
\* it has handled it, no session record exists.
C7_UnknownCardNoSession ==
    (uid # NoCard /\ uid \notin AUTHORIZED_UIDS) => ~auth_state.exists

C7_Witness ==
    /\ uid = "04 A1 B2 C3"
    /\ pc["main"] = "m_denied"
    /\ ret["main"] = "ok"
    /\ auth_log.enabled > 0

\* C8: whatever AUTH_STATE holds when the process starts, once the handler
\* is set and until a card has been presented the startup
\* disable_file_sharing has run, no record exists and no check returns
\* authorized.
C8_StartupUnauthenticated ==
    (installed /\ cards = 0)
    => (/\ ~auth_state.exists
        /\ auth_log.disabled >= 1
        /\ ret["main"] # "true"
        /\ pc["main"] # "k_parse")

C8_Witness ==
    /\ history[1].os[1] = Stamp(TIMEOUT_MINUTES * 60)
    /\ history[1].os[4] = "unlocked"
    /\ pc["main"] = "m_read"
    /\ cards = 0

\* C9 as stated: a grant at time t leaves a record holding exactly
\* t + AccessWindow.
C9_RecordIsNowPlusWindow ==
    Returned("enable_file_sharing")
    => (auth_state.wellformed /\ ExpiryOf(auth_state) = clock + AccessWindow)

\* C9 as amended: a grant at time t replaces whatever record there was by
\* one holding t cut to the whole second plus AccessWindow; a check before
\* the instant the record holds returns authorized and keeps the record, a
\* check after it returns not-authorized and removes the record.
C9_GrantResetsExpiry ==
    /\ Returned("enable_file_sharing")
       => (/\ auth_state.exists
           /\ auth_state.wellformed
           /\ auth_state.secs = (clock \div Resolution) + TIMEOUT_MINUTES * 60
           /\ ret["main"] = "ok")
    /\ (/\ Returned("check_auth_state")
        /\ Last.os[1].wellformed
        /\ clock < Last.os[1].secs * Resolution)
       => (ret["main"] = "true" /\ auth_state = Last.os[1])
    /\ (/\ Returned("check_auth_state")
        /\ Last.os[1].wellformed
        /\ clock > Last.os[1].secs * Resolution)
       => (ret["main"] = "false" /\ ~auth_state.exists)

\* two grants five minutes apart: the record holds ten minutes after the
\* second one, not fifteen after the first
C9_Witness ==
    /\ Len(history) = 3
    /\ history[2].fn = "enable_file_sharing"
    /\ history[3].fn = "enable_file_sharing"
    /\ history[3].os[1] = Stamp(TIMEOUT_MINUTES * 60)
    /\ Returned("enable_file_sharing")
    /\ clock = 5 * TicksPerMinute
    /\ auth_state = Stamp(15 * 60)

\* C10: a check of a malformed record returns not-authorized, has called
\* disable_file_sharing exactly once and has removed the record; a check
\* that finds no record returns not-authorized and calls nothing.
C10_MalformedRevokedOnce ==
    /\ (Returned("check_auth_state") /\ Last.os[1] = Garbage)
       => (/\ ret["main"] = "false"
           /\ ~auth_state.exists
           /\ auth_log.disabled = Last.os[5].disabled + 1)
    /\ (Returned("check_auth_state") /\ ~Last.os[1].exists)
       => (ret["main"] = "false" /\ os = Last.os)

\* a check of "garbage", then a second check
C10_Witness ==
    /\ Len(history) = 3
    /\ history[1].os[1] = Garbage
    /\ history[2].fn = "check_auth_state"
    /\ history[3].fn = "check_auth_state"
    /\ Returned("check_auth_state")
    /\ ret["main"] = "false"
    /\ auth_log.disabled = 1

\* C11: disable_file_sharing called when no record exists returns Ok, leaves
\* the record absent and ends with the share tightened and the account
\* locked; a second disable_file_sharing right after a first one returns Ok
\* and leaves the record, the share and the account as the first left them.
C11_RevokeIdempotent ==
    /\ (Returned("disable_file_sharing") /\ ~Last.os[1].exists)
       => (ret["main"] = "ok" /\ Revoked)
    /\ (/\ Returned("disable_file_sharing")
        /\ Len(history) >= 3
        /\ history[Len(history) - 1].fn = "disable_file_sharing")
       => (/\ ret["main"] = "ok"
           /\ Revoked
           /\ <<auth_state, share_mode, share_owner, fileuser>>
                = <<Last.os[1], Last.os[2], Last.os[3], Last.os[4]>>)

\* a revoke of a loosened share holding a record, then a second revoke
C11_Witness ==
    /\ Len(history) = 3
    /\ history[2].fn = "disable_file_sharing"
    /\ history[2].os[1].exists
    /\ history[2].os[2] = "770"
    /\ history[3].fn = "disable_file_sharing"
    /\ ~history[3].os[1].exists
    /\ Returned("disable_file_sharing")
    /\ ret["main"] = "ok"
    /\ auth_log.disabled = 2

\* C12: when check_auth_state returns an I/O error to the loop (the read of
\* the record failed), the process keeps running and the loop goes on to its
\* next iteration, without taking the tick for an authorized one.
C12_PersistenceErrorRetried ==
    [][(pc["main"] = "m_checked" /\ ret["main"] = "err")
         => (proc' = "running" /\ pc'["main"] \in {"m_checked", "m_while"})]_vars

\* C13: when a chmod, chown, usermod or restart command of
\* enable_file_sharing or disable_file_sharing fails, the rest of the function
\* still runs (down to its audit line) and the function returns Ok.
C13_SideEffectFailureTolerated ==
    /\ Returned("enable_file_sharing")
       => (ret["main"] = "ok" /\ auth_log.enabled = Last.os[5].enabled + 1)
    /\ Returned("disable_file_sharing")
       => (ret["main"] = "ok" /\ auth_log.disabled = Last.os[5].disabled + 1)

\* C14: the run flag is cleared only by the handler, and only once its
\* disable_file_sharing and its cleanup have returned; main starts its
\* cleanup pass only from the loop head, with the flag cleared, and only once.
C14_ShutdownOrdering ==
    [][/\ (running /\ ~running')
          => (pc["handler"] = "h_cleaned" /\ stack["handler"] = <<>>)
       /\ (pc["main"] # "c_chmod" /\ pc'["main"] = "c_chmod")
          => (/\ pc["main"] = "m_while"
              /\ ~running
              /\ signals > 0
              /\ stack'["main"] = <<"m_cleaned">>)]_vars

\* main is inside its final cleanup pass after a Ctrl-C
C14_Witness ==
    /\ pc["main"] = "c_usermod"
    /\ stack["main"] = <<"m_cleaned">>
    /\ pc["handler"] = "h_idle"
    /\ signals = 1
    /\ ~running
    /\ proc = "running"

\* C15: once the run flag is cleared the iteration in flight completes and
\* main reaches its final cleanup.  The process takes no step after main has
\* returned, so this holds only if every process that ends with the flag
\* cleared ends from the final cleanup()? of main.
C15_LoopExitsToCleanup ==
    (proc = "exited" /\ ~running) => pc["main"] = "m_cleaned"

\* C16: a process that ends after a Ctrl-C ends with exit code 0, returning
\* from main after its final cleanup, whatever the interleaving of the
\* handler with the loop.
C16_SignalExitsZero ==
    (proc = "exited" /\ signals > 0)
    => (exit_code = 0 /\ pc["main"] = "m_cleaned" /\ ret["main"] = "ok")

\* C17: an iteration in which check_auth_state returned true goes straight
\* back to the loop head: main does not call read_card_uid (no card is
\* taken), enable_file_sharing or disable_file_sharing, and changes neither
\* the record, the share, the account nor the audit log.
C17_AuthorizedTickDoesNotPoll ==
    [][(/\ pc["main"] = "m_checked"
        /\ ret["main"] = "true"
        /\ pc'["main"] # pc["main"])
       => (/\ pc'["main"] = "m_while"
           /\ stack'["main"] = <<>>
           /\ cards' = cards
           /\ uid' = NoCard
           /\ os' = os)]_vars

\* check_auth_state has just returned true to the loop after a grant
C17_Witness ==
    /\ proc = "running"
    /\ pc["main"] = "m_checked"
    /\ ret["main"] = "true"
    /\ auth_log.enabled = 1
    /\ SessionActive

\* C18 as stated: when the process starts on a still-valid record of a
\* previous run, the loop's check returns authorized without a card having
\* been presented.
C18_RestartKeepsSession ==
    (/\ history[1].os[1] = Stamp(TIMEOUT_MINUTES * 60)
     /\ clock < ExpiryOf(history[1].os[1])
     /\ proc = "running"
     /\ pc["main"] = "m_checked"
     /\ cards = 0)
    => ret["main"] = "true"

\* C18 as amended: when the process starts on a still-valid record of a
\* previous run, the startup disable_file_sharing removes it; from the start
\* of the loop on a record exists only after an authorized card was presented
\* in this run, and check_auth_state returns authorized only after that card
\* and the grant that followed it.
C18_RestartRequiresToken ==
    history[1].os[1] = Stamp(TIMEOUT_MINUTES * 60)
    => (/\ (installed /\ auth_state.exists) => auth_log.authorized >= 1
        /\ ret["main"] = "true"
           => (auth_log.authorized >= 1 /\ auth_log.enabled >= 1))

\* started on a still-valid record: one card later the check returns
\* authorized
C18_Witness ==
    /\ history[1].os[1] = Stamp(TIMEOUT_MINUTES * 60)
    /\ history[1].os[2] = "770"
    /\ pc["main"] = "m_checked"
    /\ ret["main"] = "true"
    /\ cards = 1
    /\ auth_log.disabled = 1

\* the share is loosened for fileuser and the account is unlocked
Enabled ==
    /\ share_mode = "770"
    /\ share_owner = "pi:fileuser"
    /\ fileuser = "unlocked"

\* C19: while no Ctrl-C has arrived and no command fails, whenever main is
\* at the head of the loop either a record exists and the share is enabled,
\* or no record exists and the share is tightened and the account locked;
\* the same holds when enable_file_sharing has returned (record and enabled)
\* and when disable_file_sharing has returned (no record and tightened).
C19_EnabledIffRecord ==
    (signals = 0 /\ ~faulty /\ proc = "running")
    => (/\ pc["main"] = "m_while"
           => ((auth_state.exists /\ Enabled) \/ Revoked)
        /\ pc["main"] = "m_granted"
           => (ret["main"] = "ok" /\ auth_state.exists /\ Enabled)
        /\ pc["main"] \in {"m_init", "m_denied", "k_revoked"}
           => (ret["main"] = "ok" /\ Revoked))

\* back at the loop head after a grant and the revocation of the expired
\* session
C19_Witness ==
    /\ signals = 0
    /\ proc = "running"
    /\ pc["main"] = "m_while"
    /\ auth_log.enabled = 1
    /\ auth_log.disabled = 2
    /\ Revoked

\* a step of the handler thread, inside the handler or a function it called
HandlerStep ==
    \/ HandlerDisabled
    \/ HandlerStore
    \/ disable_file_sharing("handler")
    \/ cleanup("handler")

\* C20: once triggered, the handler is never stopped by what its
\* disable_file_sharing or its cleanup returned: while the process lives a
\* started handler always has a next step, and it is back at rest only with
\* the run flag cleared.
C20_HandlerAlwaysStops ==
    /\ (proc = "running" /\ pc["handler"] # "h_idle") => ENABLED HandlerStep
    /\ (signals > 0 /\ pc["handler"] = "h_idle") => ~running

\* the handler's disable_file_sharing and its cleanup have both returned
\* an error, the share is not tightened, and the flag is cleared next
C20_Witness ==
    /\ proc = "running"
    /\ pc["handler"] = "h_cleaned"
    /\ ret["handler"] = "err"
    /\ auth_log.disabled = 1
    /\ auth_log.cleanup = 0
    /\ share_mode # "700"
    /\ running

====
